---- MODULE Spec2Model ----
(***************************************************************************)
(* Model of plotsirv (src/src/main.rs): a valence server whose systems     *)
(* toggle the game mode on sneak, dig blocks in creative and survival      *)
(* mode, and place blocks with facing / half / type derived from the       *)
(* player's yaw, the clicked face and the cursor.                          *)
(*                                                                         *)
(* One tick runs the systems in the order main() registers them.  Every    *)
(* system is one action that handles its whole event queue; the queue is   *)
(* an input of the action, and budget counts the events the tick's batch   *)
(* can still hold.  The event loop stage runs in passes: after a pass of    *)
(* the four event systems it either runs again, on the events decoded      *)
(* since, or the tick goes on to init_clients.  The history variables      *)
(* queue and log keep, for the system that ran last, its event queue and   *)
(* the world before and after each event it handled; trace keeps the       *)
(* handled events of the whole tick.                                       *)
(***************************************************************************)
EXTENDS Integers, Sequences, FiniteSets, TLC

VARIABLES grid, clients, crashed, pc, ticks, pass, budget, conns, queue, log, trace

vars == <<grid, clients, crashed, pc, ticks, pass, budget, conns, queue, log, trace>>

----------------------------------------------------------------------------
(* Bounds of the model                                                     *)

\* most events the framework delivers in one tick
MaxBatch == 2
\* most connections opened or closed in a run
MaxConns == 1
\* number of ticks explored
MaxTicks == 1
\* most passes of the event loop stage in one tick
MaxPasses == 2
\* yaw is an f32 in degrees: modelled in steps of 1/YawScale degree
YawScale == 10
\* whole turns of yaw explored on either side of 0
MaxTurns == 2
\* cursor_pos[1] is an f32 in [0, 1]: modelled in steps of 1/CursorScale
CursorScale == 100

----------------------------------------------------------------------------
(* Program constants                                                       *)

SPAWN_Y == 64
ChunkRadius == 5
FillRadius == 25
ChunkSize == 16
FullTurn == 360
FirstHotbarSlot == 36

----------------------------------------------------------------------------
(* Block states                                                            *)

NoProp == "none"

\* BlockKind::to_state(): the default state of a kind.  A property the kind
\* does not define is NoProp.
to_state(kind) ==
    CASE kind = "oak_stairs" -> [kind |-> kind, Facing |-> "North", Half |-> "Bottom", Type |-> NoProp]
      [] kind = "oak_slab"   -> [kind |-> kind, Facing |-> NoProp, Half |-> NoProp, Type |-> "Bottom"]
      [] OTHER               -> [kind |-> kind, Facing |-> NoProp, Half |-> NoProp, Type |-> NoProp]

AIR == to_state("air")
GRASS_BLOCK == to_state("grass_block")

BlockKinds == {"stone", "oak_stairs", "oak_slab"}

\* BlockState::get(name).is_some()
has_prop(state, name) == state[name] # NoProp

\* a set that adds the property to a state that does not define it
MutSetUndefined(state, name, val) == [state EXCEPT ![name] = val]

\* BlockState::set(name, val): the state is returned unchanged when it does
\* not define the property.
set_prop(state, name, val) ==
    IF has_prop(state, name) THEN [state EXCEPT ![name] = val] ELSE state

\* a predicate that holds of no state
MutNothingReplaceable(state) == FALSE

is_replaceable(state) == state.kind = "air"

----------------------------------------------------------------------------
(* Items and inventories                                                   *)

NoStack == [item |-> "none", count |-> 0]

ItemStack(item, count) == [item |-> item, count |-> count]

\* ItemKind::to_block_kind(): "none" when the item is not a block
to_block_kind(item) ==
    IF item \in BlockKinds THEN item ELSE "none"

Slots == {FirstHotbarSlot, FirstHotbarSlot + 1}

\* Inventory::replace_slot(slot_id, slot)
replace_slot(inventory, slot_id, stack) == [inventory EXCEPT ![slot_id] = stack]

----------------------------------------------------------------------------
(* Positions, chunks and the instance                                      *)

Faces == {"Bottom", "Top", "North", "South", "West", "East"}

\* BlockPos::get_in_direction(face)
get_in_direction(p, f) ==
    CASE f = "Bottom" -> <<p[1], p[2] - 1, p[3]>>
      [] f = "Top"    -> <<p[1], p[2] + 1, p[3]>>
      [] f = "North"  -> <<p[1], p[2], p[3] - 1>>
      [] f = "South"  -> <<p[1], p[2], p[3] + 1>>
      [] f = "West"   -> <<p[1] - 1, p[2], p[3]>>
      [] f = "East"   -> <<p[1] + 1, p[2], p[3]>>

\* the range -5..5 of the chunk loops of setup()
chunk_range == (-ChunkRadius)..(ChunkRadius - 1)

\* the chunks setup() inserts: both chunk coordinates in -5..5 (exclusive)
ChunkLoaded(p) ==
    /\ (p[1] \div ChunkSize) \in chunk_range
    /\ (p[3] \div ChunkSize) \in chunk_range

\* the cells the events of the model click: a cell of the ground, the last
\* loaded cell along x, and the first cell past it (in no chunk)
Origin == <<0, SPAWN_Y, 0>>
EdgeCell == <<ChunkRadius * ChunkSize - 1, SPAWN_Y, 0>>
OutsideCell == <<ChunkRadius * ChunkSize, SPAWN_Y, 0>>

ClickPositions == {Origin, EdgeCell, OutsideCell}

\* every position an event of the model can read or write
Positions ==
    ClickPositions \cup {get_in_direction(p, f) : p \in ClickPositions, f \in Faces}

\* fill loops that include their upper bound
MutFillRange == (-FillRadius)..FillRadius

\* the range -25..25 of the fill loops of setup()
fill_range == (-FillRadius)..(FillRadius - 1)

\* the cell setup() leaves at p: the ground block on the filled square at
\* SPAWN_Y, air (Chunk::default()) elsewhere
SetupBlock(p) ==
    IF /\ p[2] = SPAWN_Y
       /\ p[1] \in fill_range
       /\ p[3] \in fill_range
    THEN GRASS_BLOCK
    ELSE AIR

\* the instance after setup(), on the positions of P; a position in no
\* chunk is not in its domain
setup_on(P) == [p \in {q \in P : ChunkLoaded(q)} |-> SetupBlock(p)]

\* the instance after setup(), on the positions of the model
setup == setup_on(Positions)

\* Instance::block(pos) is Some
block_loaded(g, p) == p \in DOMAIN g

\* Instance::set_block(pos, state): no effect when pos is in no chunk
set_block(g, p, state) ==
    IF block_loaded(g, p) THEN [g EXCEPT ![p] = state] ELSE g

----------------------------------------------------------------------------
(* Events                                                                  *)
\* A record is written with its fields in the order TLC keeps them (the
\* order in which the field names first occur in the module).

Clients == {"c1", "c2"}

Hands == {"Main", "Off"}

StartSneakingEvents == {[name |-> "StartSneaking", client |-> c] : c \in Clients}

StartDigging(c, p) == [name |-> "StartDigging", client |-> c, position |-> p]

FinishDigging(c, p) == [name |-> "FinishDigging", client |-> c, position |-> p]

\* the first client digs every clicked cell, the second the ground cell
StartDiggingEvents ==
    {StartDigging("c1", p) : p \in ClickPositions} \cup {StartDigging("c2", Origin)}

FinishDiggingEvents ==
    {FinishDigging("c1", p) : p \in ClickPositions} \cup {FinishDigging("c2", Origin)}

UseItemOnBlock(c, p, f, cy, h) ==
    [name |-> "UseItemOnBlock", client |-> c, position |-> p, face |-> f,
     cursor_y |-> cy, hand |-> h]

\* the clicks of the model.  The first client clicks every face of the
\* ground cell, the outward face of the edge cell, a cell in no chunk, and
\* once with the off hand; the second client clicks the ground cell.
UseItemOnBlockEvents ==
    LET half == CursorScale \div 2
    IN  {UseItemOnBlock("c1", Origin, f, half, "Main") : f \in Faces}
        \cup {UseItemOnBlock("c1", Origin, "South", CursorScale, "Main"),
              UseItemOnBlock("c1", EdgeCell, "East", half, "Main"),
              UseItemOnBlock("c1", OutsideCell, "Top", half, "Main"),
              UseItemOnBlock("c1", Origin, "Top", half, "Off"),
              UseItemOnBlock("c2", Origin, "Top", half, "Main")}

\* the event queues of at most n events over S
Queues(S, n) == UNION {[1..k -> S] : k \in 0..n}

----------------------------------------------------------------------------
(* Client sessions                                                         *)

GameModes == {"Survival", "Creative", "Adventure", "Spectator"}

Deg(d) == d * YawScale

SpawnPosition == <<0, SPAWN_Y + 1, 0>>

EmptyInventory == [s \in Slots |-> NoStack]

\* a Client entity as the framework spawns it, before init_clients has seen
\* it (Added<Client> still set)
NewClient ==
    [position |-> <<0, 0, 0>>, mode |-> "Survival", yaw |-> 0,
     held |-> FirstHotbarSlot, inv |-> EmptyInventory, instance |-> FALSE,
     greetings |-> 0, added |-> TRUE, disconnected |-> FALSE]

\* what the framework writes into a session between ticks: look direction,
\* selected hotbar slot and inventory contents
Loadouts ==
    LET inv(a, b) == [s \in Slots |-> IF s = FirstHotbarSlot THEN a ELSE b]
    IN  { [yaw |-> Deg(10), held |-> h,
           inv |-> inv(ItemStack("oak_stairs", 3), ItemStack("stone", 1))] : h \in Slots }
        \cup
        { [yaw |-> Deg(-90), held |-> h,
           inv |-> inv(ItemStack("oak_slab", 2), NoStack)] : h \in Slots }
        \cup
        { [yaw |-> Deg(200), held |-> h,
           inv |-> inv(ItemStack("stick", 2), ItemStack("oak_stairs", 1))] : h \in Slots }

\* a session that init_clients has initialised and that has played since
Session(mode, l) ==
    [position |-> SpawnPosition, mode |-> mode, yaw |-> l.yaw, held |-> l.held,
     inv |-> l.inv, instance |-> TRUE, greetings |-> 1,
     added |-> FALSE, disconnected |-> FALSE]

Sessions == {Session(m, l) : m \in GameModes, l \in Loadouts}

\* the second client takes fewer configurations than the first
BystanderSessions ==
    {s \in Sessions : /\ s.held = FirstHotbarSlot
                      /\ \/ s.mode = "Survival" /\ s.yaw = Deg(10)
                         \/ s.mode = "Creative" /\ s.yaw = Deg(-90)}

\* Query::get / get_component succeeds
has_client(w, c) == c \in DOMAIN w.clients

----------------------------------------------------------------------------
(* The systems, one event at a time.  w is the world: grid, clients and    *)
(* whether a system has panicked.                                          *)

World(g, cl, cr) == [grid |-> g, clients |-> cl, crashed |-> cr]

panic(w) == [w EXCEPT !.crashed = TRUE]

\* a toggle that never leaves Creative
MutNextGameMode(mode) ==
    CASE mode = "Survival" -> "Creative"
      [] OTHER             -> "Creative"

\* the match of toggle_gamemode_on_sneak
next_game_mode(mode) ==
    CASE mode = "Survival" -> "Creative"
      [] mode = "Creative" -> "Survival"
      [] OTHER             -> "Creative"

\* a lookup failure that panics instead of skipping the event
MutToggleUnwrap(w, event) ==
    IF ~has_client(w, event.client) THEN panic(w)
    ELSE [w EXCEPT !.clients[event.client].mode = next_game_mode(@)]

\* a loop over every client instead of a lookup of the event's client
MutToggleEveryClient(w, event) ==
    IF ~has_client(w, event.client) THEN w
    ELSE [w EXCEPT !.clients = [c \in DOMAIN @ |->
                                   [@[c] EXCEPT !.mode = next_game_mode(@)]]]

toggle_gamemode_on_sneak_event(w, event) ==
    IF ~has_client(w, event.client) THEN w
    ELSE [w EXCEPT !.clients[event.client].mode = next_game_mode(@)]

digging_creative_mode_event(w, event) ==
    IF ~has_client(w, event.client) THEN w
    ELSE IF w.clients[event.client].mode = "Creative"
         THEN [w EXCEPT !.grid = set_block(@, event.position, AIR)]
         ELSE w

\* a survival dig that only excludes Creative
MutDiggingNotCreative(w, event) ==
    IF ~has_client(w, event.client) THEN w
    ELSE IF w.clients[event.client].mode # "Creative"
         THEN [w EXCEPT !.grid = set_block(@, event.position, AIR)]
         ELSE w

digging_survival_mode_event(w, event) ==
    IF ~has_client(w, event.client) THEN w
    ELSE IF w.clients[event.client].mode = "Survival"
         THEN [w EXCEPT !.grid = set_block(@, event.position, AIR)]
         ELSE w

\* a placement that accepts either hand
MutAnyHand(event) == event.hand \in Hands

\* event.hand != Hand::Main skips the event
hand_is_main(event) == event.hand = "Main"

\* Inventory::slot(slot_id)
slot(inv, slot_id) == inv[slot_id]

\* the mode in which a placement takes the item from the inventory
consumes_item(mode) == mode = "Survival"

\* a decrement that leaves the last item in the slot
MutConsumedSlot(stack) ==
    IF stack.count > 1 THEN ItemStack(stack.item, stack.count - 1) ELSE stack

\* a decrement taken whatever the count, which stores a stack of count 0
MutDecrementAlways(stack) == ItemStack(stack.item, stack.count - 1)

\* the slot written back by a survival placement
consumed_slot(stack) ==
    IF stack.count > 1 THEN ItemStack(stack.item, stack.count - 1) ELSE NoStack

\* sectors whose lower boundary belongs to the sector before
MutFacingOfYaw(yaw) ==
    LET y == yaw % Deg(FullTurn)
    IN  IF ~(Deg(45) < y /\ y <= Deg(315)) THEN "South"
        ELSE IF Deg(45) < y /\ y <= Deg(135) THEN "West"
        ELSE IF Deg(135) < y /\ y <= Deg(225) THEN "North"
        ELSE IF Deg(225) < y /\ y <= Deg(315) THEN "East"
        ELSE "unreachable"

\* the match on client.yaw().rem_euclid(360.0); yaw in 1/YawScale degrees
facing_of_yaw(yaw) ==
    LET y == yaw % Deg(FullTurn)
    IN  IF ~(Deg(45) <= y /\ y < Deg(315)) THEN "South"
        ELSE IF Deg(45) <= y /\ y < Deg(135) THEN "West"
        ELSE IF Deg(135) <= y /\ y < Deg(225) THEN "North"
        ELSE IF Deg(225) <= y /\ y < Deg(315) THEN "East"
        ELSE "unreachable"

\* a side click that counts the middle of the face as the top half
MutVerticalValue(face, cursor_y) ==
    CASE face = "Bottom" -> "Top"
      [] face = "Top"    -> "Bottom"
      [] OTHER           -> IF 2 * cursor_y >= CursorScale THEN "Top" ELSE "Bottom"

\* the value the match on event.face gives Half and Type
vertical_value(face, cursor_y) ==
    CASE face = "Bottom" -> "Top"
      [] face = "Top"    -> "Bottom"
      [] OTHER           -> IF 2 * cursor_y > CursorScale THEN "Top" ELSE "Bottom"

\* the block state place_blocks derives for a block kind
derive_block_state(block_kind, facing, face, cursor_y) ==
    LET s0 == to_state(block_kind)
        has_facing == has_prop(s0, "Facing")
        has_half == has_prop(s0, "Half")
        has_type == has_prop(s0, "Type")
        s1 == IF has_facing THEN set_prop(s0, "Facing", facing) ELSE s0
        val == vertical_value(face, cursor_y)
    IN  IF has_half \/ has_type
        THEN set_prop(set_prop(s1, "Half", val), "Type", val)
        ELSE s1

\* a placement that always writes the neighbour
MutRealPos(replace, event) ==
    get_in_direction(event.position, event.face)

\* the cell place_blocks writes
real_pos(replace, event) ==
    IF replace THEN event.position
    ELSE get_in_direction(event.position, event.face)

\* a write that spares a cell holding a block that is not replaceable
MutPlaceIfFree(g, p, state) ==
    IF block_loaded(g, p) /\ is_replaceable(g[p]) THEN set_block(g, p, state) ELSE g

\* instance.set_block(real_pos, block_state): the cell is written whatever
\* it holds
place_block(g, p, state) == set_block(g, p, state)

place_blocks_event(w, event) ==
    IF ~has_client(w, event.client) THEN w
    ELSE IF ~hand_is_main(event) THEN w
    ELSE
      LET client == w.clients[event.client]
          slot_id == client.held
          stack == slot(client.inv, slot_id)
          block_kind == to_block_kind(stack.item)
      IN
      IF stack = NoStack THEN w
      ELSE IF block_kind = "none" THEN w
      ELSE
        LET w1 == IF consumes_item(client.mode)
                  THEN [w EXCEPT !.clients[event.client].inv =
                                    replace_slot(@, slot_id, consumed_slot(stack))]
                  ELSE w
            facing == facing_of_yaw(client.yaw)
        IN
        IF facing = "unreachable" THEN panic(w1)
        ELSE IF ~block_loaded(w1.grid, event.position) THEN panic(w1)
        ELSE
          LET replace == is_replaceable(w1.grid[event.position])
              block_state == derive_block_state(block_kind, facing, event.face,
                                                event.cursor_y)
          IN  [w1 EXCEPT !.grid = place_block(@, real_pos(replace, event), block_state)]

\* the loop body of the system named
handle_event(system, w, event) ==
    CASE system = "toggle_gamemode_on_sneak" -> toggle_gamemode_on_sneak_event(w, event)
      [] system = "digging_creative_mode"    -> digging_creative_mode_event(w, event)
      [] system = "digging_survival_mode"    -> digging_survival_mode_event(w, event)
      [] system = "place_blocks"             -> place_blocks_event(w, event)

\* A system's loop over its event queue: the worlds before the first event
\* and after each one.  A panic ends the loop.
RunEvents(system, w, events) ==
    LET RECURSIVE go(_, _)
        go(i, acc) ==
            IF i > Len(events) \/ acc[Len(acc)].crashed THEN acc
            ELSE go(i + 1, Append(acc, handle_event(system, acc[Len(acc)], events[i])))
    IN  go(1, <<w>>)

\* the history of a run: each event with the world before and after it
LogOf(events, worlds) ==
    [i \in 1..(Len(worlds) - 1) |->
        [event |-> events[i], pre |-> worlds[i], post |-> worlds[i + 1]]]

----------------------------------------------------------------------------
(* The schedule: main() adds the four event systems to the event loop      *)
(* stage, then init_clients and despawn_disconnected_clients.              *)

world == World(grid, clients, crashed)

Running(system) == pc = system /\ ~crashed /\ ticks < MaxTicks

\* a reordering that runs place_blocks ahead of the digging systems
MutPlaceFirst ==
    <<"toggle_gamemode_on_sneak", "place_blocks", "digging_creative_mode",
      "digging_survival_mode">>

\* a reordering that runs toggle_gamemode_on_sneak after the digging systems
MutToggleLast ==
    <<"digging_creative_mode", "digging_survival_mode",
      "toggle_gamemode_on_sneak", "place_blocks">>

\* the systems of the event loop stage, in the order main() adds them
EventLoopOrder ==
    <<"toggle_gamemode_on_sneak", "digging_creative_mode",
      "digging_survival_mode", "place_blocks">>

\* the system that runs after the given one in a pass of the event loop
next_system(system) ==
    LET i == CHOOSE j \in DOMAIN EventLoopOrder : EventLoopOrder[j] = system
    IN  IF i < Len(EventLoopOrder) THEN EventLoopOrder[i + 1]
        ELSE "event_loop_run_criteria"

\* the cells an event changed, with the states it left in them
written_cells(pre, post) ==
    [p \in {q \in DOMAIN pre.grid : post.grid[q] # pre.grid[q]} |-> post.grid[p]]

\* What a system's run adds to the history of the tick: for every event
\* whose client the system found, the pass, the client and the game mode the
\* system read, the system, and the cells it changed.
TraceOf(records) ==
    LET found == SelectSeq(records, LAMBDA r : has_client(r.pre, r.event.client))
    IN  [i \in DOMAIN found |->
            [pass |-> pass, client |-> found[i].event.client,
             mode |-> found[i].pre.clients[found[i].event.client].mode,
             system |-> pc,
             written |-> written_cells(found[i].pre, found[i].post)]]

\* the connection of the client is closed: no packet of it is decoded
connection_closed(c) == c \in DOMAIN clients /\ clients[c].disconnected

\* a system handles the queue events and hands over to the next system
RunSystem(events) ==
    LET worlds == RunEvents(pc, world, events)
        last == worlds[Len(worlds)]
    IN  /\ \A i \in DOMAIN events : ~connection_closed(events[i].client)
        /\ grid' = last.grid
        /\ clients' = last.clients
        /\ crashed' = last.crashed
        /\ queue' = events
        /\ log' = LogOf(events, worlds)
        /\ trace' = trace \o TraceOf(LogOf(events, worlds))
        /\ pc' = next_system(pc)
        /\ budget' = budget - Len(events)
        /\ UNCHANGED <<ticks, pass, conns>>

toggle_gamemode_on_sneak ==
    /\ Running("toggle_gamemode_on_sneak")
    /\ \E events \in Queues(StartSneakingEvents, budget) :
          RunSystem(events)

digging_creative_mode ==
    /\ Running("digging_creative_mode")
    /\ \E events \in Queues(StartDiggingEvents, budget) :
          RunSystem(events)

digging_survival_mode ==
    /\ Running("digging_survival_mode")
    /\ \E events \in Queues(FinishDiggingEvents, budget) :
          RunSystem(events)

PlaceBlocksOn(S) ==
    /\ Running("place_blocks")
    /\ \E events \in Queues(S, budget) :
          RunSystem(events)

place_blocks == PlaceBlocksOn(UseItemOnBlockEvents)

\* After a pass the event loop stage runs again while received packets are
\* left to decode; otherwise the tick goes on to the update stage.
event_loop_run_criteria ==
    /\ Running("event_loop_run_criteria")
    /\ \E again \in BOOLEAN :
          /\ again => budget > 0 /\ pass < MaxPasses
          /\ pc' = IF again THEN EventLoopOrder[1] ELSE "init_clients"
          /\ pass' = IF again THEN pass + 1 ELSE pass
    /\ queue' = <<>>
    /\ log' = <<>>
    /\ UNCHANGED <<grid, clients, crashed, ticks, budget, conns, trace>>

\* a query without the Added filter: every client is initialised on every run
MutInitClientAlways(client) ==
    [client EXCEPT !.position = SpawnPosition, !.instance = TRUE,
                   !.mode = "Creative", !.greetings = @ + 1,
                   !.added = FALSE]

\* every client added since the last run is initialised, once
init_client(client) ==
    IF client.added
    THEN [client EXCEPT !.position = SpawnPosition, !.instance = TRUE,
                        !.mode = "Creative", !.greetings = @ + 1,
                        !.added = FALSE]
    ELSE client

init_clients ==
    /\ Running("init_clients")
    /\ clients' = [c \in DOMAIN clients |-> init_client(clients[c])]
    /\ pc' = "despawn_disconnected_clients"
    /\ queue' = <<>>
    /\ log' = <<>>
    /\ UNCHANGED <<grid, crashed, ticks, pass, budget, conns, trace>>

despawn_disconnected_clients ==
    /\ Running("despawn_disconnected_clients")
    /\ clients' = [c \in {d \in DOMAIN clients : ~clients[d].disconnected} |-> clients[c]]
    /\ pc' = EventLoopOrder[1]
    /\ ticks' = ticks + 1
    /\ pass' = 1
    /\ budget' = MaxBatch
    /\ queue' = <<>>
    /\ log' = <<>>
    /\ trace' = <<>>
    /\ UNCHANGED <<grid, crashed, conns>>

\* the framework accepts a connection and spawns its Client entity, before
\* the event loop of the tick
Connect(c) ==
    /\ Running(EventLoopOrder[1])
    /\ pass = 1
    /\ conns < MaxConns
    /\ c \notin DOMAIN clients
    /\ clients' = clients @@ (c :> NewClient)
    /\ conns' = conns + 1
    /\ queue' = <<>>
    /\ log' = <<>>
    /\ UNCHANGED <<grid, crashed, pc, ticks, pass, budget, trace>>

\* the framework sees a connection close
Disconnect(c) ==
    /\ Running(EventLoopOrder[1])
    /\ c \in DOMAIN clients
    /\ conns < MaxConns
    /\ ~clients[c].disconnected
    /\ clients' = [clients EXCEPT ![c].disconnected = TRUE]
    /\ conns' = conns + 1
    /\ queue' = <<>>
    /\ log' = <<>>
    /\ UNCHANGED <<grid, crashed, pc, ticks, pass, budget, trace>>

\* The sessions the framework holds when the first tick of a run starts.
\* Client entities, their look direction, hotbar and inventory are written
\* by the framework, so they are inputs of the systems; the game mode ranges
\* over the whole GameMode enum the systems match on.
InitialClients ==
    {[c \in {} |-> NewClient]}
    \cup {("c1" :> s) : s \in Sessions}
    \cup {("c2" :> s) : s \in BystanderSessions}
    \cup {("c1" :> s) @@ ("c2" :> t) : s \in Sessions, t \in BystanderSessions}

Init ==
    /\ grid = setup
    /\ clients \in InitialClients
    /\ crashed = FALSE
    /\ pc = EventLoopOrder[1]
    /\ ticks = 0
    /\ pass = 1
    /\ budget = MaxBatch
    /\ conns = 0
    /\ queue = <<>>
    /\ log = <<>>
    /\ trace = <<>>

Next ==
    \/ toggle_gamemode_on_sneak
    \/ digging_creative_mode
    \/ digging_survival_mode
    \/ place_blocks
    \/ event_loop_run_criteria
    \/ init_clients
    \/ despawn_disconnected_clients
    \/ \E c \in Clients : Connect(c)
    \/ \E c \in Clients : Disconnect(c)

Spec == Init /\ [][Next]_vars

----------------------------------------------------------------------------
(* place_blocks on every yaw: one creative client holding stairs clicks    *)
(* the top of the ground cell.                                             *)

YawRange == Deg(-(MaxTurns * FullTurn))..Deg(MaxTurns * FullTurn)

HotbarWith(stack) == [s \in Slots |-> IF s = FirstHotbarSlot THEN stack ELSE NoStack]

InitFacing ==
    /\ grid = setup
    /\ \E y \in YawRange :
          clients = ("c1" :> Session("Creative",
                        [yaw |-> y, held |-> FirstHotbarSlot,
                         inv |-> HotbarWith(ItemStack("oak_stairs", 3))]))
    /\ crashed = FALSE
    /\ pc = "place_blocks"
    /\ ticks = 0
    /\ pass = 1
    /\ budget = 1
    /\ conns = 0
    /\ queue = <<>>
    /\ log = <<>>
    /\ trace = <<>>

\* the one click of this specification
TopClicks == {UseItemOnBlock("c1", Origin, "Top", CursorScale \div 2, "Main")}

place_blocks_any_yaw == PlaceBlocksOn(TopClicks)

NextFacing == place_blocks_any_yaw

SpecFacing == InitFacing /\ [][NextFacing]_vars

----------------------------------------------------------------------------
(* place_blocks on every face and cursor height: one creative client       *)
(* holding one block of each kind, looking each of the four ways, clicks   *)
(* the (empty) edge cell.                                                  *)

\* one yaw in each sector
ShapeYaws == {Deg(10), Deg(100), Deg(190), Deg(280)}

InitShape ==
    /\ grid = setup
    /\ \E k \in BlockKinds : \E y \in ShapeYaws :
          clients = ("c1" :> Session("Creative",
                        [yaw |-> y, held |-> FirstHotbarSlot,
                         inv |-> HotbarWith(ItemStack(k, 1))]))
    /\ crashed = FALSE
    /\ pc = "place_blocks"
    /\ ticks = 0
    /\ pass = 1
    /\ budget = 1
    /\ conns = 0
    /\ queue = <<>>
    /\ log = <<>>
    /\ trace = <<>>

\* a click on every face at every cursor height
EdgeClicks ==
    {UseItemOnBlock("c1", EdgeCell, f, cy, "Main") : f \in Faces, cy \in 0..CursorScale}

place_blocks_any_cursor == PlaceBlocksOn(EdgeClicks)

NextShape == place_blocks_any_cursor

SpecShape == InitShape /\ [][NextShape]_vars

----------------------------------------------------------------------------
(* setup on the cells around every boundary of the loaded chunks and of    *)
(* the filled square, one layer below and above included: one creative     *)
(* client digs one of them.                                                *)

SurveyCoords ==
    {-(ChunkRadius * ChunkSize) - 1, -(ChunkRadius * ChunkSize),
     -FillRadius - 1, -FillRadius, 0, FillRadius - 1, FillRadius,
     ChunkRadius * ChunkSize - 1, ChunkRadius * ChunkSize}

SurveyPositions ==
    {<<x, y, z>> : x \in SurveyCoords, y \in {SPAWN_Y - 1, SPAWN_Y, SPAWN_Y + 1},
                   z \in SurveyCoords}

InitSetup ==
    /\ grid = setup_on(SurveyPositions)
    /\ clients = ("c1" :> Session("Creative",
                      [yaw |-> Deg(10), held |-> FirstHotbarSlot,
                       inv |-> HotbarWith(NoStack)]))
    /\ crashed = FALSE
    /\ pc = "digging_creative_mode"
    /\ ticks = 0
    /\ pass = 1
    /\ budget = 1
    /\ conns = 0
    /\ queue = <<>>
    /\ log = <<>>
    /\ trace = <<>>

SurveyDigs == {StartDigging("c1", p) : p \in SurveyPositions}

digging_creative_mode_survey ==
    /\ Running("digging_creative_mode")
    /\ \E events \in Queues(SurveyDigs, budget) :
          RunSystem(events)

NextSetup == digging_creative_mode_survey

SpecSetup == InitSetup /\ [][NextSetup]_vars

----------------------------------------------------------------------------
(* Reading the history                                                     *)

\* the records of the last run whose event has the given type
Records(name) == {log[i] : i \in {j \in DOMAIN log : log[j].event.name = name}}

Present(r) == r.event.client \in DOMAIN r.pre.clients

Holder(r) == r.pre.clients[r.event.client]

HeldStack(r) == Holder(r).inv[Holder(r).held]

\* a use event that passes every check of place_blocks before the inventory
\* is touched
Attempt(r) ==
    /\ Present(r)
    /\ r.event.hand = "Main"
    /\ HeldStack(r).count > 0
    /\ HeldStack(r).item \in BlockKinds

ClickedLoaded(r) == r.event.position \in DOMAIN r.pre.grid

Neighbour(r) == get_in_direction(r.event.position, r.event.face)

\* the cell a placement is to write
Target(r) ==
    IF ClickedLoaded(r) /\ r.pre.grid[r.event.position].kind # "air"
    THEN Neighbour(r)
    ELSE r.event.position

\* the grid differs from g at most in the cells of S
SameExcept(g, h, S) ==
    /\ DOMAIN g = DOMAIN h
    /\ \A q \in DOMAIN g \ S : g[q] = h[q]

\* a use event that wrote its block
Successful(r) ==
    /\ Attempt(r)
    /\ ~r.post.crashed
    /\ Target(r) \in DOMAIN r.pre.grid

----------------------------------------------------------------------------
(* Claims                                                                  *)

\* C1: a StartDigging event on a cell of the grid sets that cell to air iff
\* the client's mode is Creative when the event is handled, a FinishDigging
\* event iff the mode is Survival; in every other mode the grid is
\* unchanged; sessions are never changed and no system panics.
DigRule(r, mode) ==
    /\ ~r.post.crashed
    /\ r.post.clients = r.pre.clients
    /\ ~(Present(r) /\ r.event.position \in DOMAIN r.pre.grid) =>
          r.post.grid = r.pre.grid
    /\ Present(r) /\ r.event.position \in DOMAIN r.pre.grid =>
          /\ Holder(r).mode = mode =>
                /\ r.post.grid[r.event.position] = AIR
                /\ SameExcept(r.pre.grid, r.post.grid, {r.event.position})
          /\ Holder(r).mode # mode => r.post.grid = r.pre.grid
          /\ r.pre.grid[r.event.position] # AIR =>
                (r.post.grid # r.pre.grid <=> Holder(r).mode = mode)

C1_DiggingModeExclusive ==
    /\ \A r \in Records("StartDigging") : DigRule(r, "Creative")
    /\ \A r \in Records("FinishDigging") : DigRule(r, "Survival")

C1_Witness ==
    \E r \in Records("FinishDigging") :
        /\ Present(r) /\ Holder(r).mode = "Survival"
        /\ r.pre.grid[Origin] = GRASS_BLOCK
        /\ r.event.position = Origin
        /\ grid[Origin] = AIR

\* C2: a use event that writes its block writes it into the clicked cell
\* when that cell held a replaceable state, and into the neighbour in the
\* direction of the clicked face otherwise, leaving the clicked cell as it
\* was; no other cell changes.
C2_ReplaceOrAdjacent ==
    \A r \in Records("UseItemOnBlock") :
        Successful(r) =>
            LET p == r.event.position
                n == Neighbour(r)
            IN  IF is_replaceable(r.pre.grid[p])
                THEN /\ r.post.grid[p].kind = HeldStack(r).item
                     /\ SameExcept(r.pre.grid, r.post.grid, {p})
                ELSE /\ r.post.grid[n].kind = HeldStack(r).item
                     /\ r.post.grid[p] = r.pre.grid[p]
                     /\ SameExcept(r.pre.grid, r.post.grid, {n})

C2_Witness ==
    \E r \in Records("UseItemOnBlock") :
        /\ Successful(r)
        /\ r.pre.grid[r.event.position] = GRASS_BLOCK
        /\ r.pre.grid[Neighbour(r)] = AIR
        /\ r.post.grid[Neighbour(r)].kind = HeldStack(r).item
        /\ r.post.grid[r.event.position] = GRASS_BLOCK

\* C3: a placement by a Survival session from a stack of count N > 1 leaves
\* count N - 1 of the same item in the held slot, from a stack of count 1
\* it empties the slot, and nothing else of any inventory changes; a
\* placement in any other mode leaves every inventory unchanged.
C3_SurvivalConsumption ==
    \A r \in Records("UseItemOnBlock") :
        Attempt(r) =>
            LET c == r.event.client
                h == Holder(r).held
                after == r.post.clients[c].inv
            IN  /\ \A d \in DOMAIN r.pre.clients \ {c} :
                      r.post.clients[d] = r.pre.clients[d]
                /\ \A s \in Slots \ {h} : after[s] = Holder(r).inv[s]
                /\ Holder(r).mode = "Survival" /\ HeldStack(r).count > 1 =>
                      after[h] = [item |-> HeldStack(r).item,
                                  count |-> HeldStack(r).count - 1]
                /\ Holder(r).mode = "Survival" /\ HeldStack(r).count = 1 =>
                      after[h] = NoStack
                /\ Holder(r).mode # "Survival" => after[h] = HeldStack(r)

C3_Witness ==
    \E i \in DOMAIN log : \E j \in DOMAIN log :
        /\ log[i].event.name = "UseItemOnBlock" /\ Attempt(log[i])
        /\ Holder(log[i]).mode = "Survival"
        /\ HeldStack(log[i]).count = 3
        /\ log[i].post.clients[log[i].event.client].inv[Holder(log[i]).held].count = 2
        /\ Attempt(log[j])
        /\ Holder(log[j]).mode = "Survival"
        /\ HeldStack(log[j]).count = 1
        /\ log[j].post.clients[log[j].event.client].inv[Holder(log[j]).held] = NoStack

\* C4: for every yaw, negative and beyond a full turn included, the facing
\* written is South when the yaw normalised into [0, 360) lies in [0, 45) or
\* [315, 360), West in [45, 135), North in [135, 225), East in [225, 315),
\* and the unreachable branch is never taken (no panic).
Normalised(yaw) ==
    LET turn == Deg(FullTurn)
        k == CHOOSE j \in -(MaxTurns + 1)..(MaxTurns + 1) :
                 0 <= yaw - j * turn /\ yaw - j * turn < turn
    IN  yaw - k * turn

Sector(n) ==
    CASE n < Deg(45)                   -> "South"
      [] Deg(45) <= n /\ n < Deg(135)  -> "West"
      [] Deg(135) <= n /\ n < Deg(225) -> "North"
      [] Deg(225) <= n /\ n < Deg(315) -> "East"
      [] Deg(315) <= n                 -> "South"

C4_FacingBuckets ==
    \A r \in Records("UseItemOnBlock") :
        /\ ~r.post.crashed
        /\ r.post.grid[Target(r)].kind = "oak_stairs"
        /\ r.post.grid[Target(r)].Facing = Sector(Normalised(Holder(r).yaw))

C4_Witness ==
    \E r \in Records("UseItemOnBlock") :
        /\ Holder(r).yaw = Deg(-135)
        /\ grid[Target(r)].Facing = "East"

\* C5: for a block kind that defines Half or Type, the value written is Top
\* for a click on the Bottom face, Bottom for a click on the Top face, and
\* for a side face Top iff the cursor height is strictly above 0.5.
Expected(face, cursor_y) ==
    IF face = "Bottom" THEN "Top"
    ELSE IF face = "Top" THEN "Bottom"
    ELSE IF cursor_y * 2 > CursorScale THEN "Top" ELSE "Bottom"

C6_ToggleInvolution ==
    /\ \A r \in Records("StartSneaking") :
          Present(r) /\ Holder(r).mode \in {"Adventure", "Spectator"} =>
              r.post.clients[r.event.client].mode = "Creative"
    /\ \A i \in DOMAIN log : \A j \in DOMAIN log :
          /\ j = i + 1
          /\ log[i].event.name = "StartSneaking"
          /\ log[j].event = log[i].event
          /\ Present(log[i])
          /\ Holder(log[i]).mode \in {"Survival", "Creative"}
          => /\ log[i].post.clients[log[i].event.client].mode # Holder(log[i]).mode
             /\ log[i].post.clients[log[i].event.client].mode \in {"Survival", "Creative"}
             /\ log[j].post.clients[log[i].event.client].mode = Holder(log[i]).mode

C6_Witness ==
    /\ Len(log) = 2
    /\ log[1].event = [name |-> "StartSneaking", client |-> "c1"]
    /\ log[2].event = log[1].event
    /\ Present(log[1])
    /\ Holder(log[1]).mode = "Creative"
    /\ log[1].post.clients["c1"].mode = "Survival"
    /\ clients["c1"].mode = "Creative"

\* C7: a use event made with another hand than the main hand, or with an
\* empty held slot, or with a held item that is no block, changes neither
\* the grid nor any session and does not panic, in Survival too.
C7_NonPlaceableNoOp ==
    \A r \in Records("UseItemOnBlock") :
        Present(r) /\ ~Attempt(r) => r.post = r.pre

C7_Witness ==
    \E r \in Records("UseItemOnBlock") :
        /\ Present(r)
        /\ Holder(r).mode = "Survival"
        /\ r.event.hand = "Off"
        /\ HeldStack(r) = ItemStack("oak_stairs", 3)
        /\ grid = r.pre.grid
        /\ clients = r.pre.clients

\* C8: an event of any of the four systems whose client has no session
\* leaves the grid and every session unchanged, does not panic, and the
\* system goes on to handle the next event of its queue.
C8_StaleDropped ==
    \A i \in DOMAIN log :
        ~Present(log[i]) =>
            /\ log[i].post = log[i].pre
            /\ i < Len(queue) =>
                  /\ i + 1 \in DOMAIN log
                  /\ log[i + 1].event = queue[i + 1]
                  /\ log[i + 1].pre = log[i].pre

C8_Witness ==
    /\ Len(log) = 2
    /\ log[1].event.name = "StartSneaking"
    /\ ~Present(log[1])
    /\ Present(log[2])
    /\ log[2].post.clients # log[1].pre.clients
    /\ clients = log[2].post.clients

\* C9: a use event of a Survival session that is handled to its end has
\* consumed from the held stack iff it has written its block to the grid.
C9_NoPartialApplication ==
    \A r \in Records("UseItemOnBlock") :
        Present(r) /\ Holder(r).mode = "Survival" /\ ~r.post.crashed =>
            LET consumed == r.post.clients[r.event.client].inv # Holder(r).inv
                written == /\ Attempt(r)
                           /\ Target(r) \in DOMAIN r.post.grid
                           /\ r.post.grid[Target(r)].kind = HeldStack(r).item
            IN  consumed <=> written

\* C10: a placement whose target cell (the clicked cell if replaceable,
\* else its neighbour in the face direction) lies in no loaded chunk ends
\* in a panic.
C10_UnloadedTargetFatal ==
    \A r \in Records("UseItemOnBlock") :
        Attempt(r) /\ Target(r) \notin DOMAIN r.pre.grid => r.post.crashed

----------------------------------------------------------------------------
(* Claims about a whole tick                                               *)

\* the place of a system in the sequence mode toggle, creative dig,
\* survival dig, placement
Rank(system) ==
    CASE system = "toggle_gamemode_on_sneak" -> 1
      [] system = "digging_creative_mode"    -> 2
      [] system = "digging_survival_mode"    -> 3
      [] system = "place_blocks"             -> 4

\* the records of the tick, among those numbered in K, that changed cell p
Writers(K, p) == {k \in K : p \in DOMAIN trace[k].written}

\* among the records numbered in K, the last one of the system that comes
\* latest in the sequence
LastOfLatest(K) ==
    CHOOSE k \in K : \A l \in K :
        \/ Rank(trace[l].system) < Rank(trace[k].system)
        \/ Rank(trace[l].system) = Rank(trace[k].system) /\ l <= k

\* when records of two different systems among K changed a cell, the cell
\* holds what the system latest in the sequence wrote last
LaterHandlerWins(K) ==
    \A p \in DOMAIN grid :
        (\E i \in Writers(K, p) : \E j \in Writers(K, p) :
             trace[i].system # trace[j].system)
        => grid[p] = trace[LastOfLatest(Writers(K, p))].written[p]

ThisPass == {k \in DOMAIN trace : trace[k].pass = pass}

Digs == {"digging_creative_mode", "digging_survival_mode"}

\* every dig among the records numbered in K, by a client that also sneaked
\* in the tick, read the game mode the client has now
DigsSawModeNow(K) ==
    \A j \in K :
        /\ trace[j].system \in Digs
        /\ \E i \in DOMAIN trace :
              /\ trace[i].system = "toggle_gamemode_on_sneak"
              /\ trace[i].client = trace[j].client
        => trace[j].mode = clients[trace[j].client].mode

----------------------------------------------------------------------------
(* Claims about sessions                                                   *)

\* the fields init_clients does not write are the same in both sessions
SameLook(a, b) ==
    /\ a.yaw = b.yaw
    /\ a.held = b.held
    /\ a.inv = b.inv
    /\ a.disconnected = b.disconnected

\* a run of init_clients puts every session added since the last run at
\* (0, 65, 0), binds it to the instance, makes it Creative and greets it
\* once, and leaves every other session as it is
InitClientsStep ==
    pc = "init_clients" /\ pc' # pc =>
        /\ DOMAIN clients' = DOMAIN clients
        /\ \A c \in DOMAIN clients :
              IF clients[c].added
              THEN /\ clients'[c].position = <<0, 65, 0>>
                   /\ clients'[c].instance
                   /\ clients'[c].mode = "Creative"
                   /\ clients'[c].greetings = clients[c].greetings + 1
                   /\ ~clients'[c].added
                   /\ SameLook(clients'[c], clients[c])
              ELSE clients'[c] = clients[c]

\* no session is greeted twice, and an initialised one has been greeted
GreetedOnce ==
    \A c \in DOMAIN clients' :
        /\ clients'[c].greetings <= 1
        /\ ~clients'[c].added => clients'[c].greetings = 1 /\ clients'[c].instance

\* the game mode of a session changes in toggle_gamemode_on_sneak and in the
\* run of init_clients that initialises it, nowhere else
ModeKept ==
    \A c \in DOMAIN clients \cap DOMAIN clients' :
        clients'[c].mode # clients[c].mode =>
            \/ pc = "toggle_gamemode_on_sneak"
            \/ pc = "init_clients" /\ clients[c].added

\* C12: a session is initialised once: the run of init_clients after it is
\* added sets its position to (0, 65, 0), binds it to the instance, sets its
\* mode to Creative and greets it once; no later run of init_clients changes
\* it, it is never greeted again and a toggled mode is not reset.
C12_InitialisedOnce ==
    [][InitClientsStep /\ GreetedOnce /\ ModeKept]_vars

C12_Witness ==
    /\ pc = "despawn_disconnected_clients"
    /\ DOMAIN clients = {"c1", "c2"}
    /\ \E i \in DOMAIN trace :
          /\ trace[i].system = "toggle_gamemode_on_sneak"
          /\ trace[i].client = "c1"
          /\ trace[i].mode = "Creative"
    /\ clients["c1"].mode = "Survival"
    /\ clients["c1"].greetings = 1
    /\ clients["c2"].inv = EmptyInventory
    /\ clients["c2"].mode = "Creative"
    /\ clients["c2"].position = <<0, 65, 0>>
    /\ clients["c2"].instance
    /\ clients["c2"].greetings = 1

----------------------------------------------------------------------------
(* Claims about setup                                                      *)

\* C13: before any event is handled, the loaded chunks are those with both
\* chunk coordinates in [-5, 5), every cell (x, 64, z) with x and z in
\* [-25, 25) is in a loaded chunk and holds the grass block, and every other
\* cell of the loaded chunks holds air.
C13_BootstrapResult ==
    trace = <<>> =>
        \A p \in SurveyPositions :
            LET inChunks == /\ -5 <= p[1] \div 16 /\ p[1] \div 16 < 5
                            /\ -5 <= p[3] \div 16 /\ p[3] \div 16 < 5
                inFill == /\ p[2] = 64
                          /\ -25 <= p[1] /\ p[1] < 25
                          /\ -25 <= p[3] /\ p[3] < 25
            IN  /\ p \in DOMAIN grid <=> inChunks
                /\ inFill => p \in DOMAIN grid /\ grid[p].kind = "grass_block"
                /\ inChunks /\ ~inFill => grid[p].kind = "air"

C13_Witness ==
    /\ trace = <<>>
    /\ grid[<<24, 64, 24>>].kind = "grass_block"
    /\ grid[<<-25, 64, -25>>].kind = "grass_block"
    /\ grid[<<25, 64, 0>>].kind = "air"
    /\ grid[<<-26, 64, 0>>].kind = "air"
    /\ grid[<<0, 65, 0>>].kind = "air"
    /\ grid[<<0, 63, 0>>].kind = "air"
    /\ <<-80, 64, 79>> \in DOMAIN grid
    /\ <<80, 64, 0>> \notin DOMAIN grid
    /\ <<0, 64, -81>> \notin DOMAIN grid

----------------------------------------------------------------------------
(* Claims about placement                                                  *)

\* C14: a Survival session at yaw 10 holding 3 oak stairs that clicks, with
\* the main hand, the Top face of (0, 64, 0) while that cell holds air
\* leaves there oak stairs with Facing South and Half Bottom (stairs define
\* no Type), and 2 oak stairs in the held slot.
C14_EndToEnd ==
    \A r \in Records("UseItemOnBlock") :
        /\ Present(r)
        /\ Holder(r).mode = "Survival"
        /\ Holder(r).yaw = 10 * YawScale
        /\ HeldStack(r) = [item |-> "oak_stairs", count |-> 3]
        /\ r.event.hand = "Main"
        /\ r.event.position = <<0, 64, 0>>
        /\ r.event.face = "Top"
        /\ r.pre.grid[<<0, 64, 0>>].kind = "air"
        => /\ ~r.post.crashed
           /\ r.post.grid[<<0, 64, 0>>] =
                 [kind |-> "oak_stairs", Facing |-> "South", Half |-> "Bottom",
                  Type |-> NoProp]
           /\ r.post.clients[r.event.client].inv[Holder(r).held] =
                 [item |-> "oak_stairs", count |-> 2]

C14_Witness ==
    \E r \in Records("UseItemOnBlock") :
        /\ Present(r)
        /\ Holder(r).mode = "Survival"
        /\ Holder(r).yaw = 10 * YawScale
        /\ HeldStack(r) = [item |-> "oak_stairs", count |-> 3]
        /\ r.event.hand = "Main"
        /\ r.event.position = <<0, 64, 0>>
        /\ r.event.face = "Top"
        /\ r.pre.grid[<<0, 64, 0>>].kind = "air"
        /\ grid[<<0, 64, 0>>].kind = "oak_stairs"
        /\ grid[<<0, 64, 0>>].Facing = "South"
        /\ clients[r.event.client].inv[Holder(r).held].count = 2

\* C15: the state a placement writes has a Facing value iff the kind
\* defines Facing (oak stairs), a Half value iff the kind defines Half (oak
\* stairs) and a Type value iff the kind defines Type (oak slab), each on
\* its own; a kind that defines none of them (stone) is written in its
\* default state whatever the yaw, the face and the cursor.
C15_SetOnlyIfDefined ==
    \A r \in Records("UseItemOnBlock") :
        LET item == HeldStack(r).item
            st == r.post.grid[Target(r)]
        IN  /\ st.kind = item
            /\ st.Facing # NoProp <=> item = "oak_stairs"
            /\ st.Half # NoProp <=> item = "oak_stairs"
            /\ st.Type # NoProp <=> item = "oak_slab"
            /\ item = "stone" =>
                  st = [kind |-> "stone", Facing |-> NoProp, Half |-> NoProp,
                        Type |-> NoProp]

C15_Witness ==
    \E r \in Records("UseItemOnBlock") :
        /\ HeldStack(r).item = "oak_slab"
        /\ Holder(r).yaw = Deg(190)
        /\ r.event.face = "North"
        /\ r.event.cursor_y = CursorScale
        /\ grid[Target(r)].kind = "oak_slab"
        /\ grid[Target(r)].Type = "Top"
        /\ grid[Target(r)].Half = NoProp
        /\ grid[Target(r)].Facing = NoProp

----------------------------------------------------------------------------
(* Claims about the order of a tick                                        *)

\* C16: no event system ever handles an event of a session that has been
\* added but not yet initialised by init_clients (not bound to the instance)
\* or of a session that is disconnected but not yet despawned.
C16_AttachBeforeObserve ==
    \A i \in DOMAIN log :
        Present(log[i]) =>
            /\ ~Holder(log[i]).added
            /\ Holder(log[i]).instance
            /\ ~Holder(log[i]).disconnected

\* C17: a StartSneaking event changes nothing but the game mode of the
\* session it names: the grid, every field of that session other than the
\* mode (position, yaw, held slot, inventory among them) and every other
\* session are as before, and the system does not panic.
C17_ToggleFrame ==
    \A r \in Records("StartSneaking") :
        /\ r.post.grid = r.pre.grid
        /\ r.post.crashed = r.pre.crashed
        /\ DOMAIN r.post.clients = DOMAIN r.pre.clients
        /\ \A c \in DOMAIN r.pre.clients :
              IF c = r.event.client
              THEN [r.post.clients[c] EXCEPT !.mode = r.pre.clients[c].mode]
                       = r.pre.clients[c]
              ELSE r.post.clients[c] = r.pre.clients[c]

C17_Witness ==
    \E r \in Records("StartSneaking") :
        /\ DOMAIN r.pre.clients = {"c1", "c2"}
        /\ r.event.client = "c1"
        /\ r.pre.clients["c1"].mode = "Survival"
        /\ r.pre.clients["c2"].mode = "Survival"
        /\ r.pre.clients["c1"].inv[FirstHotbarSlot].count = 3
        /\ clients["c1"].mode = "Creative"
        /\ clients["c1"].inv = r.pre.clients["c1"].inv
        /\ clients["c2"] = r.pre.clients["c2"]
        /\ grid = r.pre.grid

\* C19: when the clicked cell holds a block that is not replaceable, the
\* placed block is written into the neighbour in the face direction
\* whatever the neighbour holds, a block that is not replaceable included:
\* only the clicked cell is asked whether it is replaceable.
C19_AdjacentOverwrites ==
    \A r \in Records("UseItemOnBlock") :
        Successful(r) /\ r.pre.grid[r.event.position].kind # "air" =>
            /\ r.post.grid[Neighbour(r)].kind = HeldStack(r).item
            /\ r.pre.grid[Neighbour(r)].kind \notin {"air", HeldStack(r).item} =>
                  r.post.grid[Neighbour(r)] # r.pre.grid[Neighbour(r)]

C19_Witness ==
    \E r \in Records("UseItemOnBlock") :
        /\ Successful(r)
        /\ r.pre.grid[r.event.position] = GRASS_BLOCK
        /\ r.pre.grid[Neighbour(r)] = GRASS_BLOCK
        /\ r.post.grid[Neighbour(r)].kind = "oak_slab"
        /\ grid[Neighbour(r)].kind = "oak_slab"
        /\ grid[r.event.position] = GRASS_BLOCK

----------------------------------------------------------------------------
(* Claims about inventories                                                *)

RECURSIVE TotalCount(_, _)
\* the number of items in the slots S of an inventory
TotalCount(inventory, S) ==
    IF S = {} THEN 0
    ELSE LET s == CHOOSE t \in S : TRUE
         IN  inventory[s].count + TotalCount(inventory, S \ {s})

\* an empty slot, or a stack of at least one item
WellFormed(stack) == stack = NoStack \/ (stack.item # "none" /\ stack.count >= 1)

\* C20: every slot of every inventory is empty or holds a stack of count at
\* least 1; no event of any system raises the count of a slot, fills an
\* empty slot or changes the item of a slot that stays occupied, and every
\* event lowers the number of items of an inventory by at most one.
C20_CountsPositive ==
    /\ \A c \in DOMAIN clients : \A s \in Slots : WellFormed(clients[c].inv[s])
    /\ \A i \in DOMAIN log :
          /\ DOMAIN log[i].post.clients = DOMAIN log[i].pre.clients
          /\ \A c \in DOMAIN log[i].pre.clients :
                LET before == log[i].pre.clients[c].inv
                    after == log[i].post.clients[c].inv
                IN  /\ \A s \in Slots :
                          /\ WellFormed(after[s])
                          /\ after[s].count <= before[s].count
                          /\ after[s] # NoStack => after[s].item = before[s].item
                    /\ TotalCount(before, Slots) - TotalCount(after, Slots) \in {0, 1}

C20_Witness ==
    \E r \in Records("UseItemOnBlock") :
        /\ Attempt(r)
        /\ Holder(r).mode = "Survival"
        /\ HeldStack(r) = ItemStack("stone", 1)
        /\ clients[r.event.client].inv[Holder(r).held] = NoStack
        /\ clients[r.event.client].inv[FirstHotbarSlot] = ItemStack("oak_stairs", 3)
        /\ TotalCount(clients[r.event.client].inv, Slots) = 3

====
